---- MODULE Spec2Model ----
(***************************************************************************)
(* Model of blink.cpp: main() configures GPIO 25 as an SIO output and then *)
(* drives it HIGH / LOW forever with a 500 ms blocking delay after each    *)
(* write.                                                                  *)
(*                                                                         *)
(* The program state is the control position of main (pc) and the GPIO     *)
(* bank (io): per pin the output latch, the output enable and the selected *)
(* function.  The remaining variables are the capture of a mock pin: a     *)
(* millisecond clock started at main's entry, and the most recent writes   *)
(* seen on the LED pin.  The capture is finite: when the clock would pass  *)
(* Horizon the capture stops (observing = FALSE) while the program keeps   *)
(* running.                                                                *)
(***************************************************************************)
EXTENDS Integers, Sequences, FiniteSets

VARIABLES pc, io, now, nWrites, nHigh, nLow, recent, delays, late, drift, configs, observing

vars == <<pc, io, now, nWrites, nHigh, nLow, recent, delays, late, drift, configs, observing>>

capture == <<now, nWrites, nHigh, nLow, recent, delays, late, drift, observing>>

----------------------------------------------------------------------------
(* Program constants *)

LED_PIN == 25

GPIO_OUT == 1

GPIO_IN == 0

\* slip: a digit dropped from the first delay
SLEEP_HIGH_MS_Typo == 500 \div 10

SLEEP_HIGH_MS == 500

\* slip: a digit added to the second delay
SLEEP_LOW_MS_Typo == 500 * 10

SLEEP_LOW_MS == 500

GPIO_FUNC_SIO == "SIO"

GPIO_FUNC_NULL == "NULL"

(* Bounds of the model *)

\* largest number of milliseconds a delay returns after the requested time
MaxOvershoot == 1

\* length of the capture in milliseconds (more than 5 full periods)
Horizon == 5600

\* number of most recent writes the capture keeps
MaxRecent == 3

\* number of times initialization is performed in the re-initialization harness
MaxInits == 2

\* window lengths examined beyond the shortest one
WindowSlack == 1

\* the LED pin and one neighbour, to observe that only the LED pin is touched
Pins == {LED_PIN - 1, LED_PIN}

Levels == {0, 1}

Dirs == {GPIO_IN, GPIO_OUT}

Funcs == {GPIO_FUNC_NULL, GPIO_FUNC_SIO}

IoStates == [out : [Pins -> Levels], oe : [Pins -> Dirs], func : [Pins -> Funcs]]

\* a pin as reset leaves it, and a pin left driving HIGH by earlier code
PinAtReset(b, gpio) ==
    b.out[gpio] = 0 /\ b.oe[gpio] = GPIO_IN /\ b.func[gpio] = GPIO_FUNC_NULL

PinDrivenHigh(b, gpio) ==
    b.out[gpio] = 1 /\ b.oe[gpio] = GPIO_OUT /\ b.func[gpio] = GPIO_FUNC_SIO

\* the bank as main may find it: the LED pin in any state, every other pin
\* at reset or left driving HIGH
BootStates ==
    {b \in IoStates : \A gpio \in Pins \ {LED_PIN} : PinAtReset(b, gpio) \/ PinDrivenHigh(b, gpio)}

----------------------------------------------------------------------------
(* The SDK calls main makes, as functions on the GPIO bank *)

\* slip: the direction bit is written inverted
GpioSetDir_Inverted(b, gpio, dir) == [b EXCEPT !.oe[gpio] = 1 - dir]

GpioSetDir(b, gpio, dir) == [b EXCEPT !.oe[gpio] = dir]

\* slip: the value is written to the pin below the one named
GpioPut_WrongPin(b, gpio, value) == [b EXCEPT !.out[gpio - 1] = IF value = 0 THEN 0 ELSE 1]

\* slip: the value is written inverted, as for an active-low LED
GpioPut_Inverted(b, gpio, value) == [b EXCEPT !.out[gpio] = IF value = 0 THEN 1 ELSE 0]

\* slip: the value is written to the output enable as well as to the output latch
GpioPut_DrivesEnable(b, gpio, value) ==
    [b EXCEPT !.out[gpio] = IF value = 0 THEN 0 ELSE 1, !.oe[gpio] = IF value = 0 THEN 0 ELSE 1]

GpioPut(b, gpio, value) == [b EXCEPT !.out[gpio] = IF value = 0 THEN 0 ELSE 1]

GpioSetFunction(b, gpio, fn) == [b EXCEPT !.func[gpio] = fn]

\* slip: the output latch is left as found
GpioInit_KeepsLatch(b, gpio) ==
    GpioSetFunction(GpioSetDir(b, gpio, GPIO_IN), gpio, GPIO_FUNC_SIO)

\* slip: the output latch is written through the toggle alias instead of the clear alias
GpioInit_TogglesLatch(b, gpio) ==
    GpioSetFunction(GpioPut(GpioSetDir(b, gpio, GPIO_IN), gpio, 1 - b.out[gpio]), gpio, GPIO_FUNC_SIO)

\* gpio_init: input direction, output latch cleared, function SIO
GpioInit(b, gpio) ==
    GpioSetFunction(GpioPut(GpioSetDir(b, gpio, GPIO_IN), gpio, 0), gpio, GPIO_FUNC_SIO)

\* slip: a loop condition that is false
LoopCond_False == FALSE

\* while (true)
LoopCond == TRUE

\* the level the LED pin shows to the capture
PinLevel(b) == b.out[LED_PIN]

----------------------------------------------------------------------------
(* The capture *)

LastN(s, n) == IF Len(s) <= n THEN s ELSE SubSeq(s, Len(s) - n + 1, Len(s))

StopObserving ==
    /\ observing' = FALSE
    /\ now' = 0
    /\ nWrites' = 0
    /\ nHigh' = 0
    /\ nLow' = 0
    /\ recent' = <<>>
    /\ delays' = 0
    /\ late' = 0
    /\ drift' = 0

\* a write seen on the LED pin: its time, the level before and after it, and the
\* number and total overshoot of the delays since the previous write
RecordWrite(level) ==
    IF observing
    THEN /\ nWrites' = nWrites + 1
         /\ nHigh' = nHigh + (IF level = 1 THEN 1 ELSE 0)
         /\ nLow' = nLow + (IF level = 0 THEN 1 ELSE 0)
         /\ recent' = LastN(Append(recent, [t |-> now, was |-> PinLevel(io), v |-> level, delays |-> delays, late |-> late]), MaxRecent)
         /\ delays' = 0
         /\ late' = 0
         /\ UNCHANGED <<now, drift, observing>>
    ELSE UNCHANGED capture

\* a delay of ms milliseconds that returned d milliseconds late
Elapse(ms, d) ==
    IF observing /\ now + ms + d <= Horizon
    THEN /\ now' = now + ms + d
         /\ delays' = delays + 1
         /\ late' = late + d
         /\ drift' = drift + d
         /\ UNCHANGED <<nWrites, nHigh, nLow, recent, observing>>
    ELSE StopObserving

----------------------------------------------------------------------------
(* main *)

\* main is entered with the GPIO bank as reset or an earlier program left it
Init ==
    /\ pc = "gpio_init"
    /\ io \in BootStates
    /\ now = 0
    /\ nWrites = 0
    /\ nHigh = 0
    /\ nLow = 0
    /\ recent = <<>>
    /\ delays = 0
    /\ late = 0
    /\ drift = 0
    /\ configs = <<>>
    /\ observing = TRUE

\* gpio_init(LED_PIN);
InitPin ==
    /\ pc = "gpio_init"
    /\ io' = GpioInit(io, LED_PIN)
    /\ pc' = "gpio_set_dir"
    /\ UNCHANGED <<capture, configs>>

\* gpio_set_dir(LED_PIN, GPIO_OUT);
SetDirOut ==
    /\ pc = "gpio_set_dir"
    /\ io' = GpioSetDir(io, LED_PIN, GPIO_OUT)
    /\ configs' = Append(configs, io')
    /\ pc' = "put_high"
    /\ UNCHANGED capture

\* slip: the loop starts with the LOW write
PutHigh_WritesLow ==
    /\ pc = "put_high"
    /\ io' = GpioPut(io, LED_PIN, 0)
    /\ RecordWrite(PinLevel(io'))
    /\ pc' = "sleep_high"
    /\ UNCHANGED configs

\* gpio_put(LED_PIN, 1);
PutHigh ==
    /\ pc = "put_high"
    /\ io' = GpioPut(io, LED_PIN, 1)
    /\ RecordWrite(PinLevel(io'))
    /\ pc' = "sleep_high"
    /\ UNCHANGED configs

\* sleep_ms(500); returns no earlier than 500 ms after the call
SleepHigh ==
    /\ pc = "sleep_high"
    /\ \E d \in 0..MaxOvershoot : Elapse(SLEEP_HIGH_MS, d)
    /\ pc' = "put_low"
    /\ UNCHANGED <<io, configs>>

\* slip: the second write of the iteration repeats the first
PutLow_WritesHigh ==
    /\ pc = "put_low"
    /\ io' = GpioPut(io, LED_PIN, 1)
    /\ RecordWrite(PinLevel(io'))
    /\ pc' = "sleep_low"
    /\ UNCHANGED configs

\* gpio_put(LED_PIN, 0);
PutLow ==
    /\ pc = "put_low"
    /\ io' = GpioPut(io, LED_PIN, 0)
    /\ RecordWrite(PinLevel(io'))
    /\ pc' = "sleep_low"
    /\ UNCHANGED configs

\* slip: the second delay left out
SleepLow_NoDelay ==
    /\ pc = "sleep_low"
    /\ pc' = IF LoopCond THEN "put_high" ELSE "done"
    /\ UNCHANGED <<io, configs, capture>>

\* sleep_ms(500); then back to the loop test, or on to return 0 were it false
SleepLow ==
    /\ pc = "sleep_low"
    /\ \E d \in 0..MaxOvershoot : Elapse(SLEEP_LOW_MS, d)
    /\ pc' = IF LoopCond THEN "put_high" ELSE "done"
    /\ UNCHANGED <<io, configs>>

Next == InitPin \/ SetDirOut \/ PutHigh \/ SleepHigh \/ PutLow \/ SleepLow

Spec == Init /\ [][Next]_vars

TypeOK ==
    /\ pc \in {"gpio_init", "gpio_set_dir", "put_high", "sleep_high", "put_low", "sleep_low", "done"}
    /\ io \in IoStates
    /\ now \in 0..Horizon
    /\ nWrites \in Nat /\ nHigh \in Nat /\ nLow \in Nat
    /\ Len(recent) <= MaxRecent
    /\ delays \in Nat /\ late \in Nat /\ drift \in Nat
    /\ observing \in BOOLEAN

\* the harness of the idempotence property: before the first write, initialization
\* (gpio_init then gpio_set_dir) is performed again
InitializeAgain ==
    /\ pc = "put_high"
    /\ observing /\ nWrites = 0
    /\ Len(configs) < MaxInits
    /\ pc' = "gpio_init"
    /\ UNCHANGED <<io, capture, configs>>

NextTwice == Next \/ InitializeAgain

SpecTwice == Init /\ [][NextTwice]_vars

----------------------------------------------------------------------------
(* Properties *)

Initialized == Len(configs) >= 1

\* position in the whole run of the i-th write the capture holds (1 = the first write)
WriteIndex(i) == nWrites - Len(recent) + i

InLoop == pc \in {"put_high", "sleep_high", "put_low", "sleep_low"}

\* C1: the first write to the pin after initialization writes HIGH; no write
\* happens before initialization has completed.
C1_FirstWriteHigh ==
    observing =>
        /\ (nWrites = 0 => pc \in {"gpio_init", "gpio_set_dir", "put_high"})
        /\ (nWrites >= 1 => Initialized)
        /\ \A i \in 1..Len(recent) : WriteIndex(i) = 1 => recent[i].v = 1

C1_Witness == observing /\ nWrites = 1 /\ recent[1].v = 1 /\ pc = "sleep_high"

\* C2: once gpio_set_dir has set the LED pin's direction to output, the
\* direction is output in every later state: no step of the loop changes it.
C2_DirectionStaysOutput ==
    [][Initialized /\ io.oe[LED_PIN] = GPIO_OUT => io'.oe[LED_PIN] = GPIO_OUT]_vars

C2_Witness == pc = "sleep_low" /\ io.oe[LED_PIN] = GPIO_OUT /\ observing /\ nWrites >= 4

\* C3: the loop repeats write HIGH, delay, write LOW, delay in that order:
\* consecutive writes have opposite levels, starting with HIGH, and exactly one
\* delay lies between two consecutive writes.
C3_FourStepCycle ==
    observing =>
        /\ delays <= 1
        /\ \A i \in 1..Len(recent) :
              /\ recent[i].v = (IF WriteIndex(i) % 2 = 1 THEN 1 ELSE 0)
              /\ recent[i].delays = (IF WriteIndex(i) = 1 THEN 0 ELSE 1)
        /\ \A i \in 1..(Len(recent) - 1) : recent[i].v # recent[i + 1].v
        /\ (pc \in {"put_high", "put_low"} /\ nWrites >= 1 => delays = 1)
        /\ (pc \in {"sleep_high", "sleep_low"} => delays = 0)

C3_Witness ==
    observing /\ nWrites > MaxRecent /\ Len(recent) = MaxRecent /\ pc = "put_high" /\ delays = 1

\* C7: the program never terminates: return 0 is never reached and in every
\* reachable state the next step of the cycle is enabled.
C7_NeverTerminates == pc # "done" /\ ENABLED Next

C7_Witness == ~observing /\ pc = "put_high"

\* C9: initialization precedes the loop: whenever a gpio_put is about to execute
\* or has executed, gpio_init and gpio_set_dir(output) have completed and the
\* pin is an SIO output.
C9_InitBeforeLoop ==
    (InLoop \/ nWrites >= 1) =>
        /\ Initialized
        /\ io.oe[LED_PIN] = GPIO_OUT
        /\ io.func[LED_PIN] = GPIO_FUNC_SIO

C9_Witness == pc = "put_low" /\ nWrites = 1 /\ io.oe[LED_PIN] = GPIO_OUT

\* C10: after initialization and before the first write the pin is driven LOW,
\* so the first write is a LOW->HIGH transition; the level is always 0 or 1.
C10_LowBeforeFirstWrite ==
    /\ PinLevel(io) \in Levels
    /\ (observing /\ pc = "put_high" /\ nWrites = 0 =>
            PinLevel(io) = 0 /\ io.oe[LED_PIN] = GPIO_OUT)
    /\ (observing =>
            \A i \in 1..Len(recent) : WriteIndex(i) = 1 => recent[i].was = 0 /\ recent[i].v = 1)

C10_Witness == observing /\ pc = "put_high" /\ nWrites = 0 /\ PinLevel(io) = 0

\* C8: initializing a second time before the loop gives the configuration that
\* initializing once gives (direction output, same level), and the loop's
\* level trace is the same.
C8_InitializeIdempotent ==
    /\ \A i \in 1..Len(configs) : configs[i] = configs[1]
    /\ (InLoop => io.oe[LED_PIN] = GPIO_OUT /\ io.func[LED_PIN] = GPIO_FUNC_SIO)
    /\ (observing =>
            \A i \in 1..Len(recent) :
                /\ recent[i].v = (IF WriteIndex(i) % 2 = 1 THEN 1 ELSE 0)
                /\ recent[i].was = 1 - recent[i].v)

C8_Witness == Len(configs) = 2 /\ observing /\ nWrites >= 2

\* the half period the properties speak of: the argument of both sleep_ms calls
HalfPeriod == 500

Settled == observing /\ pc \in {"sleep_high", "sleep_low"}

Rises(s, e) ==
    \E i \in 1..Len(recent) :
        recent[i].was = 0 /\ recent[i].v = 1 /\ s <= recent[i].t /\ recent[i].t <= e

Falls(s, e) ==
    \E i \in 1..Len(recent) :
        recent[i].was = 1 /\ recent[i].v = 0 /\ s <= recent[i].t /\ recent[i].t <= e

\* every captured window [s, s + len] with len at least minLen holds both transitions
WindowsToggle(minLen) ==
    \A s \in recent[1].t..(now - minLen) :
        \A len \in minLen..(minLen + WindowSlack) :
            s + len <= now => Rises(s, s + len) /\ Falls(s, s + len)

\* C4 as stated: every window of length at least 2 x half_period holds a
\* HIGH->LOW and a LOW->HIGH transition.
C4_AsStated == Settled => WindowsToggle(2 * HalfPeriod)

\* C4: every window of length at least 2 x (half_period + the largest overshoot
\* of a delay) holds a HIGH->LOW and a LOW->HIGH transition; while no delay
\* has overshot, so does every window of length at least 2 x half_period.
C4_WindowsToggle ==
    Settled =>
        /\ WindowsToggle(2 * (HalfPeriod + MaxOvershoot))
        /\ (drift = 0 => WindowsToggle(2 * HalfPeriod))

C4_Witness ==
    /\ Settled /\ Len(recent) = MaxRecent /\ drift > 0
    /\ now - recent[1].t >= 2 * (HalfPeriod + MaxOvershoot)

\* C5 as stated: the pin holds each level for exactly half_period.
C5_AsStated ==
    observing =>
        \A i \in 1..(Len(recent) - 1) : recent[i + 1].t - recent[i].t = HalfPeriod

\* C5: the pin holds each level for at least half_period, namely half_period
\* plus the overshoot of the delay; a full period is at least 2 x half_period,
\* and the holds are exactly half_period when the delay does not overshoot.
C5_HoldAtLeastHalfPeriod ==
    observing =>
        /\ \A i \in 1..(Len(recent) - 1) :
              /\ recent[i + 1].t - recent[i].t = HalfPeriod + recent[i + 1].late
              /\ recent[i + 1].t - recent[i].t >= HalfPeriod
              /\ recent[i + 1].late <= MaxOvershoot
        /\ \A i \in 1..(Len(recent) - 2) : recent[i + 2].t - recent[i].t >= 2 * HalfPeriod
        /\ (drift = 0 =>
              \A i \in 1..(Len(recent) - 2) : recent[i + 2].t - recent[i].t = 2 * HalfPeriod)

C5_Witness ==
    /\ observing /\ Len(recent) >= 3
    /\ recent[2].t - recent[1].t = HalfPeriod
    /\ recent[3].t - recent[2].t > HalfPeriod

\* the level written by the n-th write of the run: HIGH for odd n
LevelOfWrite(n) == IF n % 2 = 1 THEN 1 ELSE 0

\* the capture agrees with the schedule: the n-th write at (n - 1) x half_period,
\* each a change of level, none missing, and HIGH held from even multiples
OnSchedule ==
    /\ \A i \in 1..Len(recent) :
          /\ recent[i].t = HalfPeriod * (WriteIndex(i) - 1)
          /\ recent[i].v = LevelOfWrite(WriteIndex(i))
          /\ recent[i].was # recent[i].v
    /\ now % HalfPeriod = 0
    /\ (InLoop => nWrites = (now \div HalfPeriod) + (IF Settled THEN 1 ELSE 0))
    /\ (Settled => PinLevel(io) = (IF (now \div HalfPeriod) % 2 = 0 THEN 1 ELSE 0))

\* C6 as stated: the pin changes level at every multiple of 500 ms from the
\* first write and at no other time, HIGH at 1000 k and LOW at 1000 k + 500.
C6_AsStated == observing => OnSchedule

\* C6: while every delay has returned exactly after the requested 500 ms, the
\* pin changes level at every multiple of 500 ms from the first write and at
\* no other time, HIGH at 1000 k and LOW at 1000 k + 500, for 5 full periods.
C6_ExactSchedule == observing /\ drift = 0 => OnSchedule

C6_Witness ==
    /\ Settled /\ drift = 0 /\ now = 10 * HalfPeriod
    /\ PinLevel(io) = 1 /\ nWrites = 11

OtherPins == Pins \ {LED_PIN}

\* C11: every step acts on pin 25 only: no other pin's level, direction or
\* function changes; inside the loop pin 25 is never an input; and every
\* delay of every iteration is the same request of 500 ms.
C11_OnlyLedPin ==
    [][/\ \A gpio \in OtherPins :
             /\ io'.out[gpio] = io.out[gpio]
             /\ io'.oe[gpio] = io.oe[gpio]
             /\ io'.func[gpio] = io.func[gpio]
       /\ (InLoop => io.oe[LED_PIN] = GPIO_OUT /\ io'.oe[LED_PIN] = GPIO_OUT)
       /\ (observing' /\ delays' # delays /\ delays' > 0 =>
             (now' - now) - (late' - late) = HalfPeriod)]_vars

C11_Witness ==
    /\ Settled /\ nWrites >= 3 /\ PinLevel(io) = 0
    /\ \E gpio \in OtherPins : PinDrivenHigh(io, gpio)

\* C12: blocked in the first delay of an iteration the pin is HIGH, blocked in
\* the second delay it is LOW; the HIGH writes so far number as many as the
\* LOW writes or one more.
C12_LevelFollowsControl ==
    /\ (pc = "sleep_high" => PinLevel(io) = 1)
    /\ (pc = "sleep_low" => PinLevel(io) = 0)
    /\ (observing =>
            /\ nHigh + nLow = nWrites
            /\ nHigh - nLow \in {0, 1}
            /\ (pc = "sleep_high" => nHigh - nLow = 1)
            /\ (pc = "sleep_low" => nHigh - nLow = 0))

C12_Witness ==
    observing /\ pc = "sleep_low" /\ PinLevel(io) = 0 /\ nHigh = 2 /\ nLow = 2

====
